---- MODULE Spec2Model ----
(***************************************************************************)
(* A model of the sequential workflow designer: the Workspace (viewport,   *)
(* selection, step removal, pointer-down dispatch), the ControlBar's       *)
(* buttons, the ToolboxItem's drag start, DesignerContext.create, and the  *)
(* collaborators they call (BehaviorController, behaviors,                 *)
(* SequenceModifier, ObjectCloner, Uid, SimpleEvent, Vector).              *)
(*                                                                         *)
(* Objects are modelled by value:                                          *)
(*   - a Step is its number (object identity; a fresh step gets a fresh    *)
(*     number from Uid.next);                                              *)
(*   - a Sequence is named by a number: 0 is the root sequence, k is the   *)
(*     sequence nested in container step k; `sequence` maps each name to   *)
(*     the ordered list of its steps;                                      *)
(*   - a StepComponent is [step, parentSequence, gen]; gen tells the       *)
(*     components of the last render ("current") from component objects of *)
(*     an earlier render that something still refers to ("old");           *)
(*   - numbers of the viewport are exact rationals <<num, den>>.           *)
(***************************************************************************)
EXTENDS Integers, Sequences, FiniteSets, TLC

VARIABLES
    sequence,        \* the definition's sequences: sequence name -> list of steps
    mainComponent,   \* Workspace.mainComponent: NULL or [components |-> set]
    selectedStep,    \* Workspace.selectedStep: a StepComponent or NULL
    componentState,  \* the StepComponents whose state is 'selected' (others: 'default')
    isReadonly,      \* Workspace.isReadonly, which the control bar reads as the context's
    stateIsReadonly, \* DesignerState.isReadonly, which ToolboxItem reads
    position,        \* Workspace.position: a Vector of rationals
    scale,           \* Workspace.scale: a rational
    behaviorState,   \* BehaviorController: the behaviors events are forwarded to
    uid,             \* Uid: the next unused step number
    isDeleteButtonHidden, \* ControlBarView: the delete button's visibility
    events,          \* the notifications the last operation forwarded, in order
    lastOp,          \* the last operation and its input
    startDefinition, \* the caller's definition object: sequence name -> list of steps
    definition,      \* the object the designer's state holds as its definition
    toolboxItemStep, \* ToolboxItem.step: the item's template
    createdSteps,    \* the steps createStep returned, in order
    isMoveModeEnabled,   \* the context's move-mode flag
    isMoveButtonDisabled, \* ControlBarView: whether the move button is marked disabled
    lastSelectedStep, \* the value onSelectedStepChanged forwarded last
    endHooks         \* the behaviors whose end hook the last operation ran, in order

vars == <<sequence, mainComponent, selectedStep, componentState, isReadonly,
          stateIsReadonly,
          position, scale, behaviorState, uid, isDeleteButtonHidden, events, lastOp,
          startDefinition, definition, toolboxItemStep, createdSteps,
          isMoveModeEnabled, isMoveButtonDisabled, lastSelectedStep, endHooks>>

(* ------------------------------ bounds --------------------------------- *)

\* Step numbers Uid.next may hand out stay below this.
MaxUid == 4
\* The viewport position stays within numerators of this size ...
MaxNum == 100
\* ... and denominators of this size.
MaxDen == 10
\* Panning stays within this distance to the right of the start.
MaxPan == 10
\* Step numbers Uid.next may hand out where only the toolbox is used.
MaxToolboxUid == 6

(* ----------------------------- constants ------------------------------- *)

NULL == [null |-> TRUE]

\* The value forwarded on onSelectedStepChanged for "no step" (null); steps are 1, 2, ...
NullStep == 0

\* The smallest y center() places the canvas at.
CenterMinY == 20

(* ------------------------------ rationals ------------------------------ *)

Abs(n) == IF n < 0 THEN -n ELSE n

RECURSIVE GCD(_, _)
GCD(a, b) == IF b = 0 THEN a ELSE GCD(b, a % b)

Rat(n, d) ==
    LET g == GCD(Abs(n), Abs(d))
        sgn == IF d < 0 THEN -1 ELSE 1
    IN <<(sgn * n) \div g, (sgn * d) \div g>>

Whole(n) == <<n, 1>>
RAdd(a, b) == Rat(a[1] * b[2] + b[1] * a[2], a[2] * b[2])
RNeg(a) == <<-a[1], a[2]>>
RSub(a, b) == RAdd(a, RNeg(b))
RMul(a, b) == Rat(a[1] * b[1], a[2] * b[2])
RDiv(a, b) == Rat(a[1] * b[2], a[2] * b[1])
RLeq(a, b) == a[1] * b[2] <= b[1] * a[2]
RLess(a, b) == a[1] * b[2] < b[1] * a[2]
RMax(a, b) == IF RLess(a, b) THEN b ELSE a
RMin(a, b) == IF RLess(b, a) THEN b ELSE a

(* ------------------------------- Vector -------------------------------- *)

Vector(x, y) == [x |-> x, y |-> y]
add(v, w) == Vector(RAdd(v.x, w.x), RAdd(v.y, w.y))
subtract(v, w) == Vector(RSub(v.x, w.x), RSub(v.y, w.y))
multiplyByScalar(v, s) == Vector(RMul(v.x, s), RMul(v.y, s))
divideByScalar(v, s) == Vector(RDiv(v.x, s), RDiv(v.y, s))

(* ------------------------------ sequences ------------------------------ *)

Range(f) == {f[i] : i \in DOMAIN f}

\* Array.prototype.indexOf, 0-based; -1 when absent.
indexOf(steps, step) ==
    IF \E i \in DOMAIN steps : steps[i] = step
    THEN (CHOOSE i \in DOMAIN steps :
              steps[i] = step /\ \A j \in DOMAIN steps : steps[j] = step => i <= j) - 1
    ELSE -1

\* Array.prototype.splice(start, deleteCount): a negative start counts from the end.
splice(steps, start, deleteCount) ==
    LET len == Len(steps)
        from == IF start < 0 THEN (IF len + start < 0 THEN 0 ELSE len + start)
                ELSE (IF start > len THEN len ELSE start)
        n == IF deleteCount > len - from THEN len - from ELSE deleteCount
    IN SubSeq(steps, 1, from) \o SubSeq(steps, from + n + 1, len)

\* Array.prototype.splice(index, 0, step).
insertAt(steps, index, step) ==
    SubSeq(steps, 1, index) \o <<step>> \o SubSeq(steps, index + 1, Len(steps))

(* --------------------------- the definition ---------------------------- *)

\* The definition the designer is opened with: root <<1, 2>>, step 2 a
\* container whose own sequence is empty.
StartDefinition == [q \in {0, 2} |-> IF q = 0 THEN <<1, 2>> ELSE <<>>]

RootSequence == 0
SequenceNames == DOMAIN StartDefinition
StartSteps == UNION {Range(StartDefinition[q]) : q \in SequenceNames}
Steps == StartSteps \cup (1..MaxUid)

\* The sequences of the tree: the root and the sequences nested in steps of the tree.
RECURSIVE Reachable(_, _, _)
Reachable(seq, names, n) ==
    IF n = 0 THEN names
    ELSE Reachable(seq,
                   names \cup {q \in SequenceNames : \E p \in names : q \in Range(seq[p])},
                   n - 1)

TreeSequences(seq) == Reachable(seq, {RootSequence}, Cardinality(SequenceNames))

(* --------------------------- DesignerContext --------------------------- *)

\* The identity of the object the caller passes as startDefinition, and of
\* an object ObjectCloner.deepClone makes.
CallerObject == "startDefinition"
ClonedObject == "clone"

\* ObjectCloner.deepClone(object): another object with the same contents.
deepClone(object) == [object EXCEPT !.object = ClonedObject]

\* create that hands the caller's object to the designer's state.
DesignerContextCreateSharing(startDefinitionObject) == startDefinitionObject

\* DesignerContext.create: the definition the designer's state is made with.
DesignerContextCreate(startDefinitionObject) == deepClone(startDefinitionObject)

\* The configurations a caller may pass: isReadonly true, false, or left out.
Configurations ==
    {[isReadonly |-> TRUE], [isReadonly |-> FALSE], [toolbox |-> "toolbox"]}

\* DesignerContext.create: isReadonly = !!configuration.isReadonly, the flag
\* the designer's state is made with.
DesignerContextCreateIsReadonly(configuration) ==
    IF "isReadonly" \in DOMAIN configuration THEN configuration.isReadonly ELSE FALSE

(* ---------------------------- program state ---------------------------- *)

\* The designer's state as one value; the operations below map states to states.
State ==
    [sequence |-> sequence, mainComponent |-> mainComponent,
     selectedStep |-> selectedStep, componentState |-> componentState,
     isReadonly |-> isReadonly, stateIsReadonly |-> stateIsReadonly,
     position |-> position, scale |-> scale,
     behaviorState |-> behaviorState, uid |-> uid,
     isDeleteButtonHidden |-> isDeleteButtonHidden, events |-> events,
     toolboxItemStep |-> toolboxItemStep, createdSteps |-> createdSteps,
     isMoveModeEnabled |-> isMoveModeEnabled,
     isMoveButtonDisabled |-> isMoveButtonDisabled,
     lastSelectedStep |-> lastSelectedStep, endHooks |-> endHooks]

Commit(s) ==
    /\ sequence' = s.sequence
    /\ mainComponent' = s.mainComponent
    /\ selectedStep' = s.selectedStep
    /\ componentState' = s.componentState
    /\ isReadonly' = s.isReadonly
    /\ stateIsReadonly' = s.stateIsReadonly
    /\ position' = s.position
    /\ scale' = s.scale
    /\ behaviorState' = s.behaviorState
    /\ uid' = s.uid
    /\ isDeleteButtonHidden' = s.isDeleteButtonHidden
    /\ events' = s.events
    /\ toolboxItemStep' = s.toolboxItemStep
    /\ createdSteps' = s.createdSteps
    /\ isMoveModeEnabled' = s.isMoveModeEnabled
    /\ isMoveButtonDisabled' = s.isMoveButtonDisabled
    /\ lastSelectedStep' = s.lastSelectedStep
    /\ endHooks' = s.endHooks
    \* The designer writes into the object it holds: the caller's object
    \* changes with it when they are the same object.
    /\ definition' = definition
    /\ startDefinition' = IF definition = CallerObject THEN s.sequence ELSE startDefinition

\* The state an operation starts from: nothing forwarded and no end hook run yet.
Begin == [State EXCEPT !.events = <<>>, !.endHooks = <<>>]

(* -------------------------- StartStopComponent ------------------------- *)

\* StartStopComponent.create(sequence): one StepComponent per step of the tree.
StartStopComponentCreate(seq) ==
    [components |->
        UNION {{[step |-> seq[q][i], parentSequence |-> q, gen |-> "current"] :
                   i \in DOMAIN seq[q]} : q \in TreeSequences(seq)}]

(* ------------------------------ ControlBar ----------------------------- *)

\* context.selectedStep: the selected Step, or NullStep.
contextSelectedStep(s) ==
    IF s.selectedStep = NULL THEN NullStep ELSE s.selectedStep.step

refreshDeleteButtonVisibility(s) ==
    LET isHidden == (contextSelectedStep(s) = NullStep) \/ s.isReadonly
    IN [s EXCEPT !.isDeleteButtonHidden = isHidden]

\* onIsMoveModeEnabledChanged that marks the button disabled when move mode is on.
onIsMoveModeEnabledChangedInverted(s, isEnabled) ==
    [s EXCEPT !.isMoveButtonDisabled = isEnabled]

\* ControlBar.onIsMoveModeEnabledChanged
onIsMoveModeEnabledChanged(s, isEnabled) ==
    [s EXCEPT !.isMoveButtonDisabled = ~isEnabled]

\* SimpleEvent.forward: the notification is recorded with what a subscriber
\* finds when it is called (the selected step, whether the main component
\* shows the sequences as they are), the value forwarded on
\* onSelectedStepChanged is kept, and the ControlBar's subscriptions run
\* synchronously.
forward(s, event) ==
    LET found == [selectedStep |-> contextSelectedStep(s),
                  isRendered |-> s.mainComponent = StartStopComponentCreate(s.sequence)]
        s1 == [s EXCEPT !.events = Append(@, event @@ found),
                        !.lastSelectedStep =
                            IF event.type = "onSelectedStepChanged" THEN event.step ELSE @]
    IN CASE event.type \in {"onSelectedStepChanged", "onIsReadonlyChanged"} ->
                refreshDeleteButtonVisibility(s1)
         [] event.type = "onIsMoveModeEnabledChanged" ->
                onIsMoveModeEnabledChanged(s1, event.isEnabled)
         [] OTHER -> s1

(* ------------------------------ Workspace ------------------------------ *)

\* StepComponent.setState
setState(s, component, state) ==
    [s EXCEPT !.componentState =
        IF state = "selected" THEN @ \cup {component} ELSE @ \ {component}]

\* A component object of the render before: it is no longer part of the main component.
Age(component) ==
    IF component = NULL THEN NULL ELSE [component EXCEPT !.gen = "old"]

AgeBehavior(b) ==
    IF b.kind \in {"selectStep", "dragStep"}
    THEN [b EXCEPT !.component = Age(@)]
    ELSE b

\* Workspace.render: a new main component; the component objects of the
\* render before live on only where something still refers to them.
render(s) ==
    [s EXCEPT !.mainComponent = StartStopComponentCreate(s.sequence),
              !.selectedStep = Age(@),
              !.componentState = {Age(c) : c \in @},
              !.behaviorState = {AgeBehavior(b) : b \in @}]

\* StartStopComponent.findStepComponent(element)
findStepComponent(main, target) ==
    IF target \in main.components THEN target ELSE NULL

\* Workspace.setPosition
setPosition(s, p) ==
    forward([s EXCEPT !.position = p], [type |-> "onViewPortChanged"])

\* Workspace.center; layout is the canvas size and the main component's view size.
center(s, layout) ==
    IF s.mainComponent # NULL
    THEN LET x == RMax(Whole(0), RDiv(RSub(layout.size.x, layout.view.x), Whole(2)))
             y == RMax(Whole(CenterMinY),
                       RDiv(RSub(layout.size.y, layout.view.y), Whole(2)))
         IN forward([s EXCEPT !.position = Vector(x, y), !.scale = Whole(1)],
                    [type |-> "onViewPortChanged"])
    ELSE s

\* The scale bounds and the wheel step of Workspace.onWheel.
MinScale == Rat(1, 10)
MaxScale == Whole(3)
WheelStep == Rat(1, 10)

\* onWheel without the clamp of the new scale.
onWheelUnclamped(s, e) ==
    LET mousePoint == subtract(Vector(e.pageX, e.pageY), e.rect)
        mouseRealPoint == subtract(divideByScalar(mousePoint, s.scale),
                                   divideByScalar(s.position, s.scale))
        wheelDelta == IF RLess(Whole(0), e.deltaY) THEN RNeg(WheelStep) ELSE WheelStep
        newScale == RAdd(s.scale, wheelDelta)
        s1 == [s EXCEPT !.position =
                  add(multiplyByScalar(mouseRealPoint, RNeg(newScale)), mousePoint)]
        s2 == [s1 EXCEPT !.scale = newScale]
    IN forward(s2, [type |-> "onViewPortChanged"])

\* onWheel that places the canvas by the scale before the event.
onWheelPlacingByOldScale(s, e) ==
    LET mousePoint == subtract(Vector(e.pageX, e.pageY), e.rect)
        mouseRealPoint == subtract(divideByScalar(mousePoint, s.scale),
                                   divideByScalar(s.position, s.scale))
        wheelDelta == IF RLess(Whole(0), e.deltaY) THEN RNeg(WheelStep) ELSE WheelStep
        newScale == RMin(RMax(RAdd(s.scale, wheelDelta), MinScale), MaxScale)
        s1 == [s EXCEPT !.position =
                  add(multiplyByScalar(mouseRealPoint, RNeg(s.scale)), mousePoint)]
        s2 == [s1 EXCEPT !.scale = newScale]
    IN forward(s2, [type |-> "onViewPortChanged"])

\* onWheel that zooms out also when deltaY is 0.
onWheelZoomingOutAtZero(s, e) ==
    LET mousePoint == subtract(Vector(e.pageX, e.pageY), e.rect)
        mouseRealPoint == subtract(divideByScalar(mousePoint, s.scale),
                                   divideByScalar(s.position, s.scale))
        wheelDelta == IF RLeq(Whole(0), e.deltaY) THEN RNeg(WheelStep) ELSE WheelStep
        newScale == RMin(RMax(RAdd(s.scale, wheelDelta), MinScale), MaxScale)
        s1 == [s EXCEPT !.position =
                  add(multiplyByScalar(mouseRealPoint, RNeg(newScale)), mousePoint)]
        s2 == [s1 EXCEPT !.scale = newScale]
    IN forward(s2, [type |-> "onViewPortChanged"])

\* Workspace.onWheel; e is [pageX, pageY, deltaY, rect], rect the canvas' position.
onWheel(s, e) ==
    LET mousePoint == subtract(Vector(e.pageX, e.pageY), e.rect)
        mouseRealPoint == subtract(divideByScalar(mousePoint, s.scale),
                                   divideByScalar(s.position, s.scale))
        wheelDelta == IF RLess(Whole(0), e.deltaY) THEN RNeg(WheelStep) ELSE WheelStep
        newScale == RMin(RMax(RAdd(s.scale, wheelDelta), MinScale), MaxScale)
        s1 == [s EXCEPT !.position =
                  add(multiplyByScalar(mouseRealPoint, RNeg(newScale)), mousePoint)]
        s2 == [s1 EXCEPT !.scale = newScale]
    IN forward(s2, [type |-> "onViewPortChanged"])

\* selectStep that leaves the step selected before in the 'selected' state.
selectStepKeepingOld(s, step) ==
    LET s2 == [s EXCEPT !.selectedStep = step]
        s3 == setState(s2, s2.selectedStep, "selected")
    IN forward(s3, [type |-> "onSelectedStepChanged", step |-> step.step])

\* Workspace.selectStep
selectStep(s, step) ==
    LET s1 == IF s.selectedStep # NULL
              THEN setState(s, s.selectedStep, "default")
              ELSE s
        s2 == [s1 EXCEPT !.selectedStep = step]
        s3 == setState(s2, s2.selectedStep, "selected")
    IN forward(s3, [type |-> "onSelectedStepChanged", step |-> step.step])

\* clearSelectedStep that forwards nothing.
clearSelectedStepSilently(s) ==
    IF s.selectedStep # NULL
    THEN LET s1 == setState(s, s.selectedStep, "default")
         IN [s1 EXCEPT !.selectedStep = NULL]
    ELSE s

\* Workspace.clearSelectedStep
clearSelectedStep(s) ==
    IF s.selectedStep # NULL
    THEN LET s1 == setState(s, s.selectedStep, "default")
             s2 == [s1 EXCEPT !.selectedStep = NULL]
         IN forward(s2, [type |-> "onSelectedStepChanged", step |-> NullStep])
    ELSE s

\* notifyChanged that does not clear the selection.
notifyChangedKeepingSelection(s) ==
    forward(render(s), [type |-> "onChanged"])

\* notifyChanged that forwards the change before it renders.
notifyChangedBeforeRender(s) ==
    render(forward(clearSelectedStep(s), [type |-> "onChanged"]))

\* Workspace.notifyChanged
notifyChanged(s) ==
    forward(render(clearSelectedStep(s)), [type |-> "onChanged"])

\* removeSelectedStep that notifies also when no step is selected.
removeSelectedStepAlwaysNotifying(s) ==
    IF s.selectedStep # NULL
    THEN LET parent == s.selectedStep.parentSequence
             index == indexOf(s.sequence[parent], s.selectedStep.step)
         IN notifyChanged([s EXCEPT !.sequence[parent] = splice(@, index, 1)])
    ELSE notifyChanged(s)

\* Workspace.removeSelectedStep
removeSelectedStep(s) ==
    IF s.selectedStep # NULL
    THEN LET parent == s.selectedStep.parentSequence
             index == indexOf(s.sequence[parent], s.selectedStep.step)
         IN notifyChanged([s EXCEPT !.sequence[parent] = splice(@, index, 1)])
    ELSE s

\* Workspace.toggleIsReadonly
toggleIsReadonly(s) ==
    LET s1 == [s EXCEPT !.isReadonly = ~@]
    IN forward(s1, [type |-> "onIsReadonlyChanged", isReadonly |-> s1.isReadonly])

(* -------------------------- BehaviorController ------------------------- *)

SelectStepBehaviorCreate(clickedStep) ==
    [kind |-> "selectStep", component |-> clickedStep]

MoveViewPortBehaviorCreate(startPosition) ==
    [kind |-> "moveViewPort", startPosition |-> startPosition]

DragStepBehaviorCreate(step, component) ==
    [kind |-> "dragStep", step |-> step, component |-> component]

\* start that activates the behavior beside the active one.
startBeside(s, behavior) ==
    [s EXCEPT !.behaviorState = @ \cup {behavior}]

\* BehaviorController.start: no effect while a behavior is active.
start(s, behavior) ==
    IF s.behaviorState = {}
    THEN [s EXCEPT !.behaviorState = {behavior}]
    ELSE s

\* onMouseDown that looks for the clicked step in readonly mode too.
onMouseDownIgnoringReadonly(s, e) ==
    IF s.mainComponent = NULL
    THEN s
    ELSE LET isNotScrollClick == (e.button # 1)
             clickedStep == IF isNotScrollClick
                            THEN findStepComponent(s.mainComponent, e.target)
                            ELSE NULL
         IN IF clickedStep # NULL
            THEN start(s, SelectStepBehaviorCreate(clickedStep))
            ELSE start(s, MoveViewPortBehaviorCreate(s.position))

\* Workspace.onMouseDown; e is [button, target].
onMouseDown(s, e) ==
    IF s.mainComponent = NULL
    THEN s
    ELSE LET isNotScrollClick == (e.button # 1)
             clickedStep == IF isNotScrollClick /\ ~s.isReadonly
                            THEN findStepComponent(s.mainComponent, e.target)
                            ELSE NULL
         IN IF clickedStep # NULL
            THEN start(s, SelectStepBehaviorCreate(clickedStep))
            ELSE start(s, MoveViewPortBehaviorCreate(s.position))

(* ------------------------------ ToolboxItem ---------------------------- *)

\* The StepDefinition a toolbox item is created with: a step without an id.
ToolboxItemStep == [object |-> "toolboxItem.step", type |-> "task"]

\* newStep.id = id
withId(step, id) ==
    [field \in DOMAIN step \cup {"id"} |-> IF field = "id" THEN id ELSE step[field]]

\* createStep that gives the id to the item's template and returns the template.
createStepOfTemplate(s) ==
    LET newStep == withId(s.toolboxItemStep, s.uid)
    IN [s EXCEPT !.uid = @ + 1,
                 !.toolboxItemStep = newStep,
                 !.createdSteps = Append(@, newStep)]

\* createStep that gives the id of the step created before.
createStepRepeatingId(s) ==
    LET newStep == withId(deepClone(s.toolboxItemStep),
                          IF s.createdSteps = <<>> THEN s.uid ELSE s.uid - 1)
    IN [s EXCEPT !.uid = @ + 1, !.createdSteps = Append(@, newStep)]

\* createStep: a copy of the item's template with the id Uid.next() returns.
\* The result is the state after Uid.next(); the new step is the number taken.
createStep(s) ==
    LET newStep == withId(deepClone(s.toolboxItemStep), s.uid)
    IN [s EXCEPT !.uid = @ + 1, !.createdSteps = Append(@, newStep)]

\* startDrag without the readonly check.
startDragIgnoringReadonly(s) ==
    LET newStep == s.uid
    IN start(createStep(s), DragStepBehaviorCreate(newStep, NULL))

\* ToolboxItem.startDrag
startDrag(s) ==
    IF ~s.stateIsReadonly
    THEN LET newStep == s.uid
         IN start(createStep(s), DragStepBehaviorCreate(newStep, NULL))
    ELSE s

\* ToolboxItem.onMousedown; e is [button].
onMousedown(s, e) ==
    LET isPrimaryButton == (e.button = 0)
    IN IF isPrimaryButton THEN startDrag(s) ELSE s

\* ToolboxItem.onTouchstart; e is [touches], the number of touch points.
onTouchstart(s, e) ==
    IF e.touches = 1 THEN startDrag(s) ELSE s

(* --------------------- ControlBar's delete button ---------------------- *)

\* SequenceModifier.deleteStep(step, parentSequence): the step leaves the sequence.
deleteStep(s, step, parentSequence) ==
    LET index == indexOf(s.sequence[parentSequence], step)
    IN IF index >= 0
       THEN [s EXCEPT !.sequence[parentSequence] = splice(@, index, 1)]
       ELSE s

\* SequenceModifier.insertStep(step, targetSequence, index)
insertStep(s, step, targetSequence, index) ==
    [s EXCEPT !.sequence[targetSequence] = insertAt(@, index, step)]

\* context.getSelectedStepParentSequence()
getSelectedStepParentSequence(s) == s.selectedStep.parentSequence

\* context.setSelectedStep(null): the workspace's selection is cleared.
setSelectedStepNull(s) == clearSelectedStep(s)

\* context.notifiyDefinitionChanged(): the workspace renders the changed
\* definition and the change is forwarded.
notifiyDefinitionChanged(s) ==
    forward(render(s), [type |-> "onDefinitionChanged"])

\* ControlBar.onDeleteButtonClicked
onDeleteButtonClicked(s) ==
    IF contextSelectedStep(s) # NullStep
    THEN LET parentSequence == getSelectedStepParentSequence(s)
             s1 == deleteStep(s, contextSelectedStep(s), parentSequence)
             s2 == setSelectedStepNull(s1)
         IN notifiyDefinitionChanged(s2)
    ELSE s

\* context.toggleIsMoveModeEnabled(): the flag flips and the change is forwarded.
toggleIsMoveModeEnabled(s) ==
    LET s1 == [s EXCEPT !.isMoveModeEnabled = ~@]
    IN forward(s1, [type |-> "onIsMoveModeEnabledChanged",
                    isEnabled |-> s1.isMoveModeEnabled])

\* ControlBar.onMoveButtonClicked
onMoveButtonClicked(s) == toggleIsMoveModeEnabled(s)

\* context.resetViewPort(): the workspace is centered.
resetViewPort(s, layout) == center(s, layout)

\* ControlBar.onResetButtonClicked
onResetButtonClicked(s, layout) == resetViewPort(s, layout)

(* ------------------------------ behaviors ------------------------------ *)

ZeroVector == Vector(Whole(0), Whole(0))

\* The places a dragged step can be dropped at: an index of a sequence of the tree.
Placeholders(seq) ==
    UNION {{[sequence |-> q, index |-> i] : i \in 0..Len(seq[q])} :
              q \in TreeSequences(seq)}

\* Behavior.onMove(delta)
onMove(s, b, delta) ==
    CASE b.kind = "moveViewPort" ->
            setPosition(s, add(b.startPosition, delta))
      [] b.kind = "selectStep" ->
            IF ~s.isReadonly /\ delta # ZeroVector
            THEN [s EXCEPT !.behaviorState =
                     (@ \ {b}) \cup {DragStepBehaviorCreate(b.component.step, b.component)}]
            ELSE s
      [] OTHER -> s

\* DragStepBehavior.onEnd over a placeholder: a step of the tree is moved
\* there, a new step is inserted there, and the workspace is notified.
dropStep(s, b, placeholder) ==
    LET s1 == IF b.component # NULL
              THEN deleteStep(s, b.step, b.component.parentSequence)
              ELSE s
    IN notifyChanged(insertStep(s1, b.step, placeholder.sequence, placeholder.index))

\* Behavior.onEnd; drop is the placeholder under the pointer, or NULL. The
\* call is recorded with the behavior it was made on.
onEnd(s, b, drop) ==
    LET s1 == [s EXCEPT !.endHooks = Append(@, b)]
    IN CASE b.kind = "selectStep" -> selectStep(s1, b.component)
         [] b.kind = "dragStep" -> IF drop # NULL THEN dropStep(s1, b, drop) ELSE s1
         [] OTHER -> s1

\* stop that runs the end hook and keeps the behavior as the active one.
stopStayingActive(s, b, drop) == onEnd(s, b, drop)

\* BehaviorController.stop, which a mouseup or touchend calls: the active
\* behavior's end hook runs and the controller forgets the behavior.
stop(s, b, drop) ==
    LET s1 == onEnd(s, b, drop)
    IN [s1 EXCEPT !.behaviorState = {}]

\* The placeholders behavior b can drop its step at: those left in the tree
\* once the dragged step is taken out, none of them inside the dragged step.
DropTargets(s, b) ==
    IF b.kind # "dragStep"
    THEN {}
    ELSE LET without == IF b.component # NULL
                        THEN deleteStep(s, b.step, b.component.parentSequence).sequence
                        ELSE s.sequence
         IN {pl \in Placeholders(without) :
                /\ pl.sequence # b.step
                /\ \A q \in SequenceNames : b.step \notin Range(without[q])}

(* ------------------------------- inputs -------------------------------- *)

\* MouseEvent.button: primary, middle, secondary.
Buttons == {0, 1, 2}
\* TouchEvent.touches.length
Touches == {1, 2}
\* WheelEvent.deltaY
DeltaYs == {Whole(-120), Whole(0), Whole(1), Whole(120)}
\* WheelEvent.pageX, pageY
PagePoints == {Vector(Whole(10), Whole(5)), Vector(Whole(20), Whole(25))}
\* The canvas' bounding rectangle's corner.
CanvasRects == {Vector(Whole(10), Whole(5))}
\* The pointer's way since the behavior started.
PanDeltas == {ZeroVector, Vector(Whole(10), Whole(0))}
\* The contents the caller gives its definition object after the designer
\* was created: the start definition, and the same with step 1 taken out.
CallerDefinitions == {StartDefinition, [StartDefinition EXCEPT ![RootSequence] = <<2>>]}
\* Positions a caller of setPosition passes.
CallerPositions == {Vector(Rat(-7, 2), Whole(33))}
\* The canvas' size and the main component's view size when center() runs.
Layouts ==
    {[size |-> Vector(Whole(0), Whole(0)), view |-> Vector(Whole(120), Whole(200))],
     [size |-> Vector(Whole(400), Whole(300)), view |-> Vector(Whole(120), Whole(200))]}
StartLayout ==
    [size |-> Vector(Whole(0), Whole(0)), view |-> Vector(Whole(120), Whole(200))]

\* A mousedown on the canvas hits a step component's element or the background.
MouseDownEvents ==
    {[button |-> button, target |-> target] :
        button \in Buttons, target \in mainComponent.components \cup {NULL}}
ToolboxMouseEvents == {[button |-> button] : button \in Buttons}
ToolboxTouchEvents == {[touches |-> touches] : touches \in Touches}
WheelEvents ==
    {[pageX |-> page.x, pageY |-> page.y, deltaY |-> deltaY, rect |-> rect] :
        page \in PagePoints, deltaY \in DeltaYs, rect \in CanvasRects}

InViewRange(p) ==
    /\ Abs(p.x[1]) <= MaxNum /\ p.x[2] <= MaxDen
    /\ Abs(p.y[1]) <= MaxNum /\ p.y[2] <= MaxDen

InPanRange(p) == 0 <= p.x[1] /\ p.x[1] <= MaxPan * p.x[2]

(* -------------------------------- Init --------------------------------- *)

\* The state once DesignerContext.create, Workspace.append, ControlBar.create
\* and ToolboxItem.create returned, with the move-mode flag the context's
\* state starts with and the configuration the caller passed.
InitWith(isMoveModeEnabledAtStart, configuration) ==
    LET made == DesignerContextCreate([object |-> CallerObject,
                                       sequences |-> StartDefinition])
        s0 == [sequence |-> made.sequences,
               mainComponent |-> StartStopComponentCreate(StartDefinition),
               selectedStep |-> NULL,
               componentState |-> {},
               isReadonly |-> FALSE,
               stateIsReadonly |-> DesignerContextCreateIsReadonly(configuration),
               position |-> ZeroVector,
               scale |-> Whole(1),
               behaviorState |-> {},
               uid |-> 1 + CHOOSE n \in StartSteps : \A m \in StartSteps : m <= n,
               isDeleteButtonHidden |-> TRUE,
               events |-> <<>>,
               toolboxItemStep |-> ToolboxItemStep,
               createdSteps |-> <<>>,
               isMoveModeEnabled |-> isMoveModeEnabledAtStart,
               isMoveButtonDisabled |-> FALSE,
               lastSelectedStep |-> NullStep,
               endHooks |-> <<>>]
        s1 == center(s0, StartLayout)
    IN /\ sequence = s1.sequence
       /\ mainComponent = s1.mainComponent
       /\ selectedStep = s1.selectedStep
       /\ componentState = s1.componentState
       /\ isReadonly = s1.isReadonly
       /\ stateIsReadonly = s1.stateIsReadonly
       /\ position = s1.position
       /\ scale = s1.scale
       /\ behaviorState = s1.behaviorState
       /\ uid = s1.uid
       /\ isDeleteButtonHidden = s1.isDeleteButtonHidden
       /\ events = s1.events
       /\ lastOp = [name |-> "append"]
       /\ startDefinition = StartDefinition
       /\ definition = made.object
       /\ toolboxItemStep = s1.toolboxItemStep
       /\ createdSteps = s1.createdSteps
       /\ isMoveModeEnabled = s1.isMoveModeEnabled
       /\ isMoveButtonDisabled = s1.isMoveButtonDisabled
       /\ lastSelectedStep = s1.lastSelectedStep
       /\ endHooks = s1.endHooks

\* The designer is created with any configuration; move mode is off at the
\* start. No operation but the control bar's move button reads or writes
\* the move-mode flag.
Init == \E configuration \in Configurations : InitWith(FALSE, configuration)

\* The same, with the control bar created on a context whose move mode is
\* off or on: no code of DesignerContext.create or ControlBar.create sets
\* the flag.
InitControlBar ==
    \E isMoveModeEnabledAtStart \in BOOLEAN, configuration \in Configurations :
        InitWith(isMoveModeEnabledAtStart, configuration)

(* ------------------------------- actions ------------------------------- *)

\* The operation's result becomes the state; lastOp names the operation.
Did(s, name) == Commit(s) /\ lastOp' = [name |-> name]
\* The same, for the operations whose input is recorded: a toolbox event, a
\* wheel event with the scale it found, and for the end of a select-step
\* behavior the selection it replaces.
DidWith(s, name, input) == Commit(s) /\ lastOp' = [name |-> name, input |-> input]

\* A mousedown on the canvas.
MouseDownOn(e) == Did(onMouseDown(Begin, e), "onMouseDown")
MouseDown == \E e \in MouseDownEvents : MouseDownOn(e)

\* A mousemove or touchmove while a behavior is active: the controller
\* forwards it to the active behavior.
PointerMoveTo(b, delta) ==
    LET s == onMove(Begin, b, delta)
    IN InPanRange(s.position) /\ Did(s, "onMove")
PointerMove == \E b \in behaviorState, delta \in PanDeltas : PointerMoveTo(b, delta)

\* A mouseup or touchend while behavior b is active: the controller stops b,
\* the pointer being outside every placeholder or over one of them.
PointerUpOn(b) ==
    /\ lastOp' = [name |-> "onEnd",
                  input |-> IF b.kind = "selectStep" THEN selectedStep ELSE NULL]
    /\ \E begin \in {Begin} :
           \/ \E result \in {stop(begin, b, NULL)} : Commit(result)
           \/ \E drop \in DropTargets(begin, b) :
                  \E result \in {stop(begin, b, drop)} : Commit(result)
PointerUp == \E b \in behaviorState : PointerUpOn(b)

\* A mousedown on a toolbox item, while Uid.next stays within max.
ToolboxMousedownWithin(e, max) ==
    LET s == onMousedown(Begin, e)
    IN s.uid <= max /\ DidWith(s, "onMousedown", e)
\* Beside the gestures on the canvas: with the primary button.
ToolboxMousedownOn(e) == ToolboxMousedownWithin(e, MaxUid)
ToolboxMousedown ==
    \E e \in {m \in ToolboxMouseEvents : m.button = 0} : ToolboxMousedownOn(e)
\* Where only the toolbox is used: with any button.
ToolboxOnlyMousedown ==
    \E e \in ToolboxMouseEvents : ToolboxMousedownWithin(e, MaxToolboxUid)

\* A touchstart on a toolbox item.
ToolboxTouchstartOn(e) ==
    LET s == onTouchstart(Begin, e)
    IN s.uid <= MaxToolboxUid /\ DidWith(s, "onTouchstart", e)
ToolboxTouchstart == \E e \in ToolboxTouchEvents : ToolboxTouchstartOn(e)

\* A click on the control bar's delete button.
DeleteButtonClick == Did(onDeleteButtonClicked(Begin), "onDeleteButtonClicked")

\* A click on the control bar's move button.
MoveButtonClick == Did(onMoveButtonClicked(Begin), "onMoveButtonClicked")

\* A click on the control bar's reset button.
ResetButtonClick ==
    \E layout \in Layouts : Did(onResetButtonClicked(Begin, layout), "onResetButtonClicked")

RemoveSelectedStep == Did(removeSelectedStep(Begin), "removeSelectedStep")

ClearSelectedStep == Did(clearSelectedStep(Begin), "clearSelectedStep")

ToggleIsReadonly == Did(toggleIsReadonly(Begin), "toggleIsReadonly")

WheelOn(e) ==
    LET s == onWheel(Begin, e)
    IN InViewRange(s.position) /\ DidWith(s, "onWheel", [e |-> e, scale |-> scale])
Wheel == \E e \in WheelEvents : WheelOn(e)

SetPosition == \E p \in CallerPositions : Did(setPosition(Begin, p), "setPosition")

Center == \E layout \in Layouts : Did(center(Begin, layout), "center")

\* The caller changes the object it passed to DesignerContext.create.
CallerChangeTo(d) ==
    /\ startDefinition' = d
    /\ sequence' = IF definition = CallerObject THEN d ELSE sequence
    /\ events' = <<>>
    /\ endHooks' = <<>>
    /\ lastOp' = [name |-> "callerChange"]
    /\ UNCHANGED <<mainComponent, selectedStep, componentState, isReadonly,
                   stateIsReadonly, position,
                   scale, behaviorState, uid, isDeleteButtonHidden, definition,
                   toolboxItemStep, createdSteps, isMoveModeEnabled,
                   isMoveButtonDisabled, lastSelectedStep>>
CallerChange == \E d \in CallerDefinitions \ {startDefinition} : CallerChangeTo(d)

Next ==
    \/ MouseDown
    \/ PointerMove
    \/ PointerUp
    \/ ToolboxMousedown
    \/ DeleteButtonClick
    \/ RemoveSelectedStep
    \/ ClearSelectedStep
    \/ ToggleIsReadonly

\* The designer: pointer gestures on the canvas, drags from the toolbox with
\* the mouse, the control bar, readonly mode.
Spec == Init /\ [][Next]_vars

NextGesture ==
    \/ MouseDown
    \/ PointerMove
    \/ PointerUp
    \/ ToolboxMousedown

\* The behavior controller under the pointer events that drive it: down on
\* the canvas or on a toolbox item, move, up. The host delivers a mouseup or
\* touchend for every pointer it reported down, so a pointer-up that stays
\* possible is delivered.
SpecGesture == Init /\ [][NextGesture]_vars /\ WF_vars(PointerUp)

NextViewPort ==
    \/ Wheel
    \/ SetPosition
    \/ Center

\* The workspace's viewport under wheel events, setPosition and center.
SpecViewPort == Init /\ [][NextViewPort]_vars

NextContext ==
    \/ MouseDown
    \/ PointerMove
    \/ PointerUp
    \/ ToolboxMousedown
    \/ DeleteButtonClick
    \/ CallerChange

\* The designer's definition and the caller's: steps are inserted, moved and
\* deleted while the caller changes the object it passed.
SpecContext == Init /\ [][NextContext]_vars

NextToolbox ==
    \/ ToolboxOnlyMousedown
    \/ ToolboxTouchstart
    \/ PointerUp
    \/ ToggleIsReadonly

\* The toolbox under mouse and touch: steps are dragged from an item one
\* after the other and dropped into the tree or beside it, by a designer
\* created readonly or not, while the workspace's readonly mode is switched
\* on and off.
SpecToolbox == Init /\ [][NextToolbox]_vars

NextControlBar ==
    \/ DeleteButtonClick
    \/ MoveButtonClick
    \/ ResetButtonClick
    \/ MouseDown
    \/ PointerUp
    \/ ClearSelectedStep
    \/ ToggleIsReadonly

\* The control bar: its three buttons are clicked while steps are selected
\* by clicks on the canvas and readonly mode is switched on and off.
SpecControlBar == InitControlBar /\ [][NextControlBar]_vars

(* ------------------------------- claims -------------------------------- *)

ChangeNotified(evs) ==
    \E i \in DOMAIN evs : evs[i].type \in {"onChanged", "onDefinitionChanged"}

SelectionNotified(evs) ==
    \E i \in DOMAIN evs : evs[i].type = "onSelectedStepChanged"

\* C1: only one behavior is active at a time: whatever pointer-downs (on the
\* canvas, on a toolbox item) came while a behavior was active, the behaviors
\* a pointer-move is forwarded to are never two.
OneActiveBehavior == Cardinality(behaviorState) <= 1

\* A canvas pointer-down came while a drag of a new toolbox step was active.
StartedWhileActive ==
    /\ lastOp.name = "onMouseDown"
    /\ \E b \in behaviorState : b.kind = "dragStep" /\ b.component = NULL

\* C2: the components in state 'selected' are exactly the component held in
\* selectedStep: none when nothing is selected, and never two.
SelectedStateIsSelectedStep ==
    componentState = IF selectedStep = NULL THEN {} ELSE {selectedStep}

\* A select-step behavior ended, selecting B while another component A was selected.
SelectedBAfterA ==
    /\ lastOp.name = "onEnd"
    /\ lastOp.input # NULL
    /\ selectedStep # NULL
    /\ lastOp.input # selectedStep
    /\ events # <<>>

\* The steps of a sequence other than one step, in their order.
Without(steps, step) == SelectSeq(steps, LAMBDA x : x # step)

IsRemoval(op) == op.name \in {"removeSelectedStep", "onDeleteButtonClicked"}

\* C3: deleting the selected step (removeSelectedStep, the delete button)
\* takes exactly one entry out of the selected step's parent sequence, the
\* selected step itself, keeps the order of the others, and leaves no step
\* selected.
RemovalRemovesSelectedStep ==
    [][(IsRemoval(lastOp') /\ selectedStep # NULL) =>
          LET parent == selectedStep.parentSequence
              step == selectedStep.step
          IN /\ Len(sequence'[parent]) = Len(sequence[parent]) - 1
             /\ sequence'[parent] = Without(sequence[parent], step)
             /\ selectedStep' = NULL]_vars

\* C4: the viewport scale stays within [0.1, 3.0] under any wheel events,
\* center() and setPosition() calls.
ScaleWithinBounds == RLeq(Rat(1, 10), scale) /\ RLeq(scale, Whole(3))

\* A wheel event to zoom in arrived with the scale at 3.0.
WheeledAtUpperBound ==
    /\ lastOp.name = "onWheel"
    /\ lastOp.input.scale = Whole(3)
    /\ ~RLess(Whole(0), lastOp.input.e.deltaY)

\* The pointer's place on the canvas: the event's page point less the canvas' corner.
MousePointOf(e) == subtract(Vector(e.pageX, e.pageY), e.rect)

\* C5: zoom to cursor: the canvas point under the cursor before a wheel event,
\* (mousePoint - position) / scale, is shown at the same screen point by the
\* transform after it: worldPoint * newScale + newPosition = mousePoint.
ZoomKeepsPointUnderCursor ==
    [][lastOp'.name = "onWheel" =>
          LET mousePoint == MousePointOf(lastOp'.input.e)
              worldPoint == divideByScalar(subtract(mousePoint, position), scale)
          IN add(multiplyByScalar(worldPoint, scale'), position') = mousePoint]_vars

\* A wheel event to zoom out arrived with the scale at 0.1 and the canvas
\* origin away from the cursor.
WheeledAtLowerBound ==
    /\ lastOp.name = "onWheel"
    /\ lastOp.input.scale = Rat(1, 10)
    /\ RLess(Whole(0), lastOp.input.e.deltaY)
    /\ position # MousePointOf(lastOp.input.e)

IsDragStart(op) ==
    \/ op.name = "onMousedown" /\ op.input.button = 0
    \/ op.name = "onTouchstart" /\ op.input.touches = 1

\* C6: while readonly, a toolbox drag start (primary mouse-down, single-touch
\* start) creates no step, changes nothing of the definition and its
\* rendering, and leaves the behavior controller as it was.
ReadonlyDragStartDoesNothing ==
    [][(stateIsReadonly /\ IsDragStart(lastOp')) =>
          /\ uid' = uid
          /\ sequence' = sequence
          /\ mainComponent' = mainComponent
          /\ selectedStep' = selectedStep
          /\ componentState' = componentState
          /\ behaviorState' = behaviorState
          /\ events' = <<>>]_vars

\* A primary mouse-down on a toolbox item came while readonly and idle.
ReadonlyDragStart ==
    /\ lastOp.name = "onMousedown"
    /\ lastOp.input.button = 0
    /\ stateIsReadonly
    /\ behaviorState = {}

\* C7: while readonly (the workspace's flag and the designer state's are both
\* true), no delete click, removeSelectedStep, toolbox drag start or canvas
\* pointer-down changes a sequence of the step tree.
ReadonlyChangesNoSequence ==
    [][(isReadonly /\ stateIsReadonly
           /\ (IsRemoval(lastOp') \/ IsDragStart(lastOp')
                          \/ lastOp'.name = "onMouseDown")) =>
          sequence' = sequence]_vars

\* C8: a canvas pointer-down starts the select-step behavior exactly when the
\* button is not the middle one, the workspace is not readonly and the target
\* is in a step component; otherwise it starts the move-viewport behavior.
PointerDownDispatch ==
    [][(lastOp'.name = "onMouseDown" /\ behaviorState = {}) =>
          \A e \in MouseDownEvents :
              MouseDownOn(e) =>
                  LET hit == /\ e.button # 1
                             /\ ~isReadonly
                             /\ e.target \in mainComponent.components
                  IN behaviorState' =
                        IF hit
                        THEN {[kind |-> "selectStep", component |-> e.target]}
                        ELSE {[kind |-> "moveViewPort", startPosition |-> position]}]_vars

\* A pointer-down on a step component has the select-step behavior active.
SelectStepStarted ==
    /\ lastOp.name = "onMouseDown"
    /\ \E c \in mainComponent.components :
           behaviorState = {[kind |-> "selectStep", component |-> c]}

\* C9: with no step selected, a delete click and removeSelectedStep leave the
\* step tree, its rendering, the selection and the viewport as they were and
\* forward no notification.
DeleteWithoutSelectionIsNoOp ==
    [][(IsRemoval(lastOp') /\ selectedStep = NULL) =>
          /\ sequence' = sequence
          /\ mainComponent' = mainComponent
          /\ selectedStep' = NULL
          /\ componentState' = componentState
          /\ position' = position
          /\ scale' = scale
          /\ behaviorState' = behaviorState
          /\ events' = <<>>]_vars

\* removeSelectedStep was called with no step selected, after a step was removed.
RemovedWithoutSelection ==
    /\ lastOp.name = "removeSelectedStep"
    /\ events = <<>>
    /\ selectedStep = NULL
    /\ sequence # StartDefinition

\* C10: after every operation that changed a sequence of the tree or
\* forwarded a change notification, no step is selected.
ChangeClearsSelection ==
    [][(sequence' # sequence \/ ChangeNotified(events')) =>
          selectedStep' = NULL]_vars

\* A dragged step was dropped into the tree while a step was selected.
DroppedWhileSelected ==
    /\ lastOp.name = "onEnd"
    /\ ChangeNotified(events)
    /\ SelectionNotified(events)
    /\ selectedStep = NULL

\* C11: the definition is cloned at context creation: no operation of the
\* designer (insert, move, delete a step) changes the caller's startDefinition
\* object, and a change the caller makes to it later changes nothing of the
\* designer's definition and its rendering.
DefinitionIsolated ==
    [][/\ (lastOp'.name # "callerChange" => startDefinition' = startDefinition)
       /\ (lastOp'.name = "callerChange" =>
              /\ sequence' = sequence
              /\ mainComponent' = mainComponent
              /\ selectedStep' = selectedStep)]_vars

\* The caller changed its object after the designer changed its definition.
CallerChangedAfterDesigner ==
    /\ lastOp.name = "callerChange"
    /\ startDefinition # StartDefinition
    /\ sequence # StartDefinition
    /\ sequence # startDefinition

WheelStepBySign ==
    [][lastOp'.name = "onWheel" =>
          LET deltaY == lastOp'.input.e.deltaY
              out == RLess(Whole(0), deltaY)
          IN /\ scale' = IF out
                         THEN RMax(RSub(scale, Rat(1, 10)), Rat(1, 10))
                         ELSE RMin(RAdd(scale, Rat(1, 10)), Whole(3))
             /\ (out /\ scale = Rat(1, 10)) => scale' = scale
             /\ (~out /\ scale = Whole(3)) => scale' = scale]_vars

\* A wheel event with deltaY 0 zoomed in by one step.
ZeroDeltaZoomedIn ==
    /\ lastOp.name = "onWheel"
    /\ lastOp.input.e.deltaY = Whole(0)
    /\ scale = RAdd(lastOp.input.scale, Rat(1, 10))

\* C14: a toolbox drag start while not readonly creates one step, a copy of
\* the item's template in an object of its own, with an id no step created
\* by an earlier drag start has; the item's template stays as it was.
DragStartCreatesFreshStep ==
    [][(~stateIsReadonly /\ IsDragStart(lastOp')) =>
          /\ Len(createdSteps') = Len(createdSteps) + 1
          /\ SubSeq(createdSteps', 1, Len(createdSteps)) = createdSteps
          /\ LET newStep == createdSteps'[Len(createdSteps')]
             IN /\ \A i \in DOMAIN createdSteps : createdSteps[i].id # newStep.id
                /\ newStep.object # toolboxItemStep.object
                /\ newStep.type = toolboxItemStep.type
          /\ toolboxItemStep' = toolboxItemStep
          /\ toolboxItemStep = ToolboxItemStep]_vars

\* A third step was dragged from the item while the second was still dragged.
ThirdDragStart ==
    /\ IsDragStart(lastOp)
    /\ Len(createdSteps) = 3
    /\ \E b \in behaviorState :
           b.kind = "dragStep" /\ b.step = createdSteps[2].id

\* C15: removing the selected step (removeSelectedStep, the delete button)
\* forwards the selection change with null first (where the tree changes,
\* before it is rendered), then the tree is rendered anew, then one change
\* notification is forwarded and nothing more; and
\* whatever the operation, who is notified of a change finds no step selected.
RemovalNotifiesInOrder ==
    [][/\ (IsRemoval(lastOp') /\ selectedStep # NULL) =>
              /\ Len(events') = 2
              /\ events'[1].type = "onSelectedStepChanged"
              /\ events'[1].step = NullStep
              /\ (StartStopComponentCreate(sequence') # mainComponent =>
                     ~events'[1].isRendered)
              /\ events'[2].type \in {"onChanged", "onDefinitionChanged"}
              /\ events'[2].isRendered
              /\ mainComponent' = StartStopComponentCreate(sequence')
       /\ \A i \in DOMAIN events' :
              events'[i].type \in {"onChanged", "onDefinitionChanged"} =>
                  events'[i].selectedStep = NullStep]_vars

\* removeSelectedStep took the selected step out of the tree and notified.
RemovedAndNotified ==
    /\ lastOp.name = "removeSelectedStep"
    /\ Len(events) = 2
    /\ Len(sequence[RootSequence]) < Len(StartDefinition[RootSequence])

Notified(evs, types) == \E i \in DOMAIN evs : evs[i].type \in types

\* C16: the control bar's buttons follow the notifications: after an
\* operation that forwarded a readonly change or a selection change the delete
\* button is hidden exactly when no step is selected or the designer is
\* readonly, and after one that forwarded a move-mode change the move button
\* is marked disabled exactly when move mode is off.
ControlBarFollowsNotifications ==
    [][/\ Notified(events', {"onSelectedStepChanged", "onIsReadonlyChanged"}) =>
              (isDeleteButtonHidden' <=> (selectedStep' = NULL \/ isReadonly'))
       /\ Notified(events', {"onIsMoveModeEnabledChanged"}) =>
              (isMoveButtonDisabled' <=> ~isMoveModeEnabled')]_vars

\* The move button switched move mode on while a step was selected and the
\* delete button shown.
MoveModeOnWithDeleteShown ==
    /\ lastOp.name = "onMoveButtonClicked"
    /\ isMoveModeEnabled
    /\ ~isMoveButtonDisabled
    /\ selectedStep # NULL
    /\ ~isDeleteButtonHidden

\* C17: whenever a step is selected, it is an element of the parent sequence
\* its component records, so that removeSelectedStep finds its index and never
\* calls splice(-1, 1).
SelectedStepInParentSequence ==
    selectedStep # NULL =>
        indexOf(sequence[selectedStep.parentSequence], selectedStep.step) # -1

\* C18: the selection notifications track the selection: the value
\* onSelectedStepChanged forwarded last (null while it forwarded nothing) is
\* the step selected now, after any selectStep, clearSelectedStep,
\* removeSelectedStep and notifyChanged; and clearSelectedStep forwards
\* nothing when no step is selected.
SelectionNotificationsTrackSelection ==
    /\ [](lastSelectedStep = contextSelectedStep(State))
    /\ [][(lastOp'.name = "clearSelectedStep" /\ selectedStep = NULL) =>
              events' = <<>>]_vars

\* clearSelectedStep cleared a selection and forwarded null.
ClearedAndForwardedNull ==
    /\ lastOp.name = "clearSelectedStep"
    /\ SelectionNotified(events)
    /\ lastSelectedStep = NullStep
    /\ selectedStep = NULL

====
